---- MODULE Spec2Model ----
(***************************************************************************)
(* State-machine model of the App component of src/src/App.jsx: the market *)
(* fetcher (fetchMarkets, an ordered chain of three network strategies     *)
(* with a fallback to MOCK_MARKETS) and the two-stage AI analyzer          *)
(* (analyzeMarketWithGemini).  Every await of the source is a point where  *)
(* an invocation is suspended; one action models the code that runs from   *)
(* one suspension to the next.                                             *)
(***************************************************************************)
EXTENDS Integers, Sequences, FiniteSets, TLC

(***************************************************************************)
(* Bounds of the model.                                                    *)
(***************************************************************************)
\* longest response array delivered by the market API
MaxLen == 2
\* the wall clock runs over 0..MaxNow
MaxNow == 2
\* longest list of outcomes or prices of a raw market
MaxOutcomes == 2

(***************************************************************************)
(* JSON values of the market API.                                          *)
(***************************************************************************)
\* the value of event.endDate: absent, a string that is no date, or an ISO
\* date (ms is its time value)
NoDate == [shape |-> "absent", ms |-> 0]
BadDate == [shape |-> "bad", ms |-> 0]
IsoDate(t) == [shape |-> "iso", ms |-> t]

\* new Date(x): an invalid date has a NaN time value
NewDate(raw) ==
    IF raw.shape = "iso" THEN [nan |-> FALSE, ms |-> raw.ms]
    ELSE [nan |-> TRUE, ms |-> 0]

\* new Date(): the current time
NowDate(t) == [nan |-> FALSE, ms |-> t]

\* a < b on two Date objects: compares the time values, false when one is NaN
DateLess(a, b) == ~a.nan /\ ~b.nan /\ a.ms < b.ms

\* one market of an event
Market(id, outcomes) == [id |-> id, outcomes |-> outcomes]

\* the value of event.markets: absent, a list, or a truthy non-list ("object")
NoMarkets == [shape |-> "absent", items |-> <<>>]
MarketList(ms) == [shape |-> "list", items |-> ms]
MarketsObject == [shape |-> "object", items |-> <<>>]

\* an element of the response array: null or an event object
NullEvent == [kind |-> "null", id |-> "null", markets |-> NoMarkets, endDate |-> NoDate]
Event(id, markets, endDate) ==
    [kind |-> "obj", id |-> id, markets |-> markets, endDate |-> endDate]

MOCK_MARKETS ==
    << Event("mock-1", MarketList(<<Market("m1", 3)>>), NoDate),
       Event("mock-2", MarketList(<<Market("m2", 3)>>), NoDate) >>

\* the market identifiers of the live events
MarketIds == {"A", "B"}
\* the market identifiers of the sample events
MockIds == {"m1", "m2"}
\* the keys of the analyses and analyzing maps
AllMarketIds == MarketIds \cup MockIds

\* an event the filter keeps at every time of the clock
LiveEvent == Event("e1", MarketList(<<Market("A", 2)>>), IsoDate(MaxNow + 1))

\* the events the modelled API can return
EventPool ==
    { LiveEvent,
      Event("e2", MarketList(<<Market("B", 3)>>), IsoDate(1)),
      Event("e3", NoMarkets, IsoDate(MaxNow + 1)),
      Event("e4", MarketList(<<>>), IsoDate(MaxNow + 1)),
      Event("e5", MarketList(<<Market("A", 2)>>), BadDate),
      Event("e6", MarketsObject, IsoDate(MaxNow + 1)),
      NullEvent }

\* a parsed response body: null, a non-array object, or an array of events
NullBody == [t |-> "null", items |-> <<>>]
ObjectBody == [t |-> "object", items |-> <<>>]
ArrayBody(s) == [t |-> "array", items |-> s]

SeqsUpTo(S, n) == UNION { [1..k -> S] : k \in 0..n }

Bodies == {NullBody, ObjectBody} \cup { ArrayBody(s) : s \in SeqsUpTo(EventPool, MaxLen) }

\* what one strategy's request can come back with: fetch rejects ("neterr"),
\* res.ok is false ("notok"), res.json() rejects ("badjson"), or a parsed body
FailKinds == {"neterr", "notok", "badjson"}
Response(kind, body) == [kind |-> kind, body |-> body]
Responses ==
    { Response(k, NullBody) : k \in FailKinds } \cup { Response("json", b) : b \in Bodies }


\* the concurrently running fetchMarkets invocations the model follows
Fetchers == {1, 2}

(***************************************************************************)
(* State.                                                                  *)
(***************************************************************************)
VARIABLES
    markets,        \* useState([]): the displayed events
    loading,        \* useState(true)
    error,          \* useState(null): the advisory message
    usingMockData,  \* useState(false): the FALLBACK tag
    analyses,       \* useState({}): market id -> verdict
    analyzing,      \* useState({}): market id -> in-flight flag
    clock,          \* the wall clock read by new Date()
    fetch,          \* per fetchMarkets invocation: position, locals, history
    net,            \* market requests in flight
    ana,            \* per analyzeMarketWithGemini invocation: position, locals, history
    anet,           \* generative-AI requests in flight
    card,           \* the render of one card: the raw market and what is decoded
    call            \* one call of a helper function: its argument and its result

vars == << markets, loading, error, usingMockData, analyses, analyzing,
           clock, fetch, net, ana, anet, card, call >>

fetchVars == << markets, loading, error, usingMockData, fetch, net >>
analysisVars == << analyses, analyzing, ana, anet >>

(***************************************************************************)
(* fetchMarkets.                                                           *)
(***************************************************************************)
\* error === null
ErrNull == "null"
\* the message of setError in the catch block
AdvisoryMsg == "Could not reach Polymarket. Showing sample live data."

\* the messages of the errors thrown inside the outer try
NoErr == "none"
NetworkBlocked == "Network blocked"
NoMarketsFound == "No active binary soccer markets found"
TypeErrorMsg == "Cannot read properties of null (reading markets)"

\* a request of invocation f for strategy k
MarketRequest(f, k) == [inv |-> f, strat |-> k]

\* locals of an invocation that has not run
IdleFetch ==
    [pc |-> "idle", strat |-> 0, data |-> NullBody, fetchSuccess |-> FALSE,
     now |-> 0, err |-> NoErr, raised |-> FALSE, log |-> <<>>]

\* locals after the synchronous prefix of fetchMarkets: strategy 1 requested
StartedFetch == [IdleFetch EXCEPT !.pc = "wait", !.strat = 1]

\* if (res.ok) { data = await res.json(); fetchSuccess = true; } with the
\* inner catch: the strategy succeeds when a body was parsed, whatever it is
StrategyOk(r) == r.kind = "json"

\* TryNext without its fetchSuccess test: every strategy is always requested
TryNextAlways(fetchSuccess, k) == k < 3

\* if (!fetchSuccess) in front of strategies 2 and 3
TryNext(fetchSuccess, k) == ~fetchSuccess /\ k < 3

\* !data
Falsy(data) == data.t = "null"
\* Array.isArray(data)
IsArray(data) == data.t = "array"

\* if (!fetchSuccess || !data || !Array.isArray(data)) throw "Network blocked"
Blocked(fetchSuccess, data) == ~fetchSuccess \/ Falsy(data) \/ ~IsArray(data)

\* the filter callback: reading event.markets of a null element throws
CallbackThrows(event) == event.kind = "null"

\* Keep without the date test
KeepIgnoresDate(event, now) ==
    /\ ~(event.markets.shape = "absent")
    /\ ~(event.markets.shape = "list" /\ Len(event.markets.items) = 0)

\* the filter callback's verdict on an event object
Keep(event, now) ==
    /\ ~(event.markets.shape = "absent")
    /\ ~(event.markets.shape = "list" /\ Len(event.markets.items) = 0)
    /\ ~DateLess(NewDate(event.endDate), now)

FilterThrows(items) == \E i \in 1..Len(items) : CallbackThrows(items[i])

\* data.filter(...)
ValidEvents(items, now) == SelectSeq(items, LAMBDA e : Keep(e, now))

\* the error thrown inside the outer try, NoErr when it runs to setMarkets
Thrown(fetchSuccess, data, now) ==
    IF Blocked(fetchSuccess, data) THEN NetworkBlocked
    ELSE IF FilterThrows(data.items) THEN TypeErrorMsg
    ELSE IF Len(ValidEvents(data.items, now)) = 0 THEN NoMarketsFound
    ELSE NoErr

\* Caught for a catch that lets a TypeError through
CaughtNotTypeError(err) == err # TypeErrorMsg

\* catch (err): catches every thrown value
Caught(err) == TRUE

\* MarketsAfter without the setMarkets(MOCK_MARKETS) of the catch block
MarketsAfterKeepsOld(err, data, now, old) ==
    IF err = NoErr THEN ValidEvents(data.items, now) ELSE old

\* setMarkets(validEvents) in the try, setMarkets(MOCK_MARKETS) in the catch
MarketsAfter(err, data, now, old) ==
    IF err = NoErr THEN ValidEvents(data.items, now)
    ELSE IF Caught(err) THEN MOCK_MARKETS
    ELSE old

\* setUsingMockData(true) in the catch
MockAfter(err, old) == IF err # NoErr /\ Caught(err) THEN TRUE ELSE old

\* if (err.message !== "Network blocked") setError(...)
ErrorAfter(err, old) ==
    IF err # NoErr /\ Caught(err) /\ err # NetworkBlocked THEN AdvisoryMsg ELSE old

\* finally { setLoading(false) }
LoadingAfter == FALSE

\* The synchronous prefix of fetchMarkets up to the first await.
fetchMarkets(f) ==
    /\ fetch[f].pc # "wait"
    /\ loading' = TRUE
    /\ error' = ErrNull
    /\ usingMockData' = FALSE
    /\ fetch' = [fetch EXCEPT ![f] = StartedFetch]
    /\ net' = net \cup {MarketRequest(f, 1)}
    /\ UNCHANGED << markets, analyses, analyzing, clock, ana, anet, card, call >>

\* The request of the awaited strategy comes back with r; the invocation runs
\* to its next await (the next strategy's request) or to its end.
fetchResume(f, r) ==
    LET k == fetch[f].strat
        ok == StrategyOk(r)
        success == fetch[f].fetchSuccess \/ ok
        data == IF ok THEN r.body ELSE fetch[f].data
        log == Append(fetch[f].log, r.kind)
    IN
    /\ fetch[f].pc = "wait"
    /\ MarketRequest(f, k) \in net
    /\ IF TryNext(success, k)
       THEN /\ fetch' = [fetch EXCEPT ![f] = [@ EXCEPT !.strat = k + 1, !.log = log,
                                                    !.data = data, !.fetchSuccess = success]]
            /\ net' = (net \ {MarketRequest(f, k)}) \cup {MarketRequest(f, k + 1)}
            /\ UNCHANGED << markets, loading, error, usingMockData >>
       ELSE LET reached == ~Blocked(success, data)
                now == IF reached THEN NowDate(clock) ELSE NowDate(0)
                err == Thrown(success, data, now)
            IN
            /\ fetch' = [fetch EXCEPT ![f] = [@ EXCEPT !.pc = "done", !.log = log,
                                                    !.data = data, !.fetchSuccess = success,
                                                    !.now = now.ms, !.err = err,
                                                    !.raised = (err # NoErr /\ ~Caught(err))]]
            /\ net' = net \ {MarketRequest(f, k)}
            /\ markets' = MarketsAfter(err, data, now, markets)
            /\ usingMockData' = MockAfter(err, usingMockData)
            /\ error' = ErrorAfter(err, error)
            /\ loading' = LoadingAfter
    /\ UNCHANGED << analyses, analyzing, clock, ana, anet, card, call >>

\* Time passes.
Tick ==
    /\ clock < MaxNow
    /\ clock' = clock + 1
    /\ UNCHANGED << fetchVars, analysisVars, card, call >>

(***************************************************************************)
(* JSON values of the generative-AI API.                                   *)
(***************************************************************************)
\* the concurrently running analyzeMarketWithGemini invocations the model follows
Analyzers == {1, 2}

\* upstream error messages and Stage-1 research texts
Msgs == {"quota exceeded", "key invalid"}
ResearchTexts == {"form: WWDLW", "form: LLDWL"}

\* a parsed generateContent result: null, { error: { message } }, an object
\* with neither error nor candidates, a candidate whose part has no text
\* property, or candidates[0].content.parts[0].text (a non-empty sequence of
\* text chunks; the empty sequence stands for undefined)
AiNull == [t |-> "null", msg |-> "", text |-> <<>>]
AiError(m) == [t |-> "error", msg |-> m, text |-> <<>>]
AiNoCandidates == [t |-> "nocand", msg |-> "", text |-> <<>>]
AiNoText == [t |-> "notext", msg |-> "", text |-> <<>>]
AiText(x) == [t |-> "text", msg |-> "", text |-> x]

\* what a generateContent request can come back with: fetch rejects,
\* response.json() rejects, or a parsed result
AiResponse(kind, result) == [kind |-> kind, result |-> result]
AiFailKinds == {"neterr", "badjson"}
\* no response received yet
NoResponse == AiResponse("none", AiNull)

\* the code-fence markers removed by aiText.replace(...)
Fences == {"<fence>json", "<fence>"}

\* Stage-2 generated texts: chunks of JSON text, possibly fenced
VerdictTexts ==
    { <<"{ok1}">>, <<"<fence>json", "{ok2}", "<fence>">>, <<"{bad}">>, <<"null">>, <<"7">>,
      <<"Sure! ", "{ok1}">> }

Stage1Responses ==
    { AiResponse(k, AiNull) : k \in AiFailKinds }
    \cup { AiResponse("json", x) :
             x \in {AiNull, AiNoCandidates, AiNoText} \cup { AiError(m) : m \in Msgs }
                   \cup { AiText(<<t>>) : t \in ResearchTexts } }

Stage2Responses ==
    { AiResponse(k, AiNull) : k \in AiFailKinds }
    \cup { AiResponse("json", x) :
             x \in {AiNull, AiNoCandidates, AiNoText} \cup { AiError(m) : m \in Msgs }
                   \cup { AiText(t) : t \in VerdictTexts } }

\* a parsed Stage-2 value and the verdict kept in the analyses map
JsonValue(t, status, confidence) ==
    [t |-> t, status |-> status, confidence |-> confidence, metadata |-> "undefined"]
NoVerdict == JsonValue("undefined", "", 0)
JsonNull == JsonValue("null", "", 0)
JsonNumber == JsonValue("number", "", 7)

\* the JSON documents of the model and their values
JsonDocs == {"{ok1}", "{ok2}", "{bad}", "null", "7"}
DocValue(d) ==
    CASE d = "{ok1}" -> JsonValue("object", "UNDERVALUED", 7)
      [] d = "{ok2}" -> JsonValue("object", "OVERVALUED", 3)
      [] d = "{bad}" -> JsonValue("object", "MAYBE", 11)
      [] d = "null" -> JsonNull
      [] OTHER -> JsonNumber

\* aiText.replace(<fence markers>, "").trim()
StripFences(text) == SelectSeq(text, LAMBDA c : c \notin Fences)

\* JSON.parse throws unless the text is exactly one JSON document
ParseThrows(text) == ~(Len(text) = 1 /\ text[1] \in JsonDocs)
JsonParse(text) == DocValue(text[1])

\* analysisData.metadata = {...} throws on null and (strict mode) on a primitive
MetadataThrows(value) == value.t # "object"
WithMetadata(value) == [value EXCEPT !.metadata = "Google Search"]

(***************************************************************************)
(* analyzeMarketWithGemini.                                                *)
(***************************************************************************)
\* analyzing[id] is undefined until the first analysis of id
FlagUndefined == "undefined"
FlagTrue == "true"
FlagFalse == "false"

\* Guarded for a test analyzing[market.id] !== undefined: a call is dropped
\* once the identifier has been analyzed
GuardedOnceSet(flag) == flag # FlagUndefined

\* Guarded without the test: no call is ever dropped
GuardedNever(flag) == FALSE

\* if (analyzing[market.id]) return;
Guarded(flag) == flag = FlagTrue

\* error messages, as sequences of text chunks
NoError == <<>>
FetchRejected == <<"Failed to fetch">>
SyntaxErrorMsg == <<"Unexpected token">>
AiTypeError == <<"Cannot read properties of undefined">>
MetadataTypeError == <<"Cannot create property metadata">>

\* alert("Analysis failed: " + err.message + ". Please try again.")
Alert(err) == <<"Analysis failed: ">> \o err \o <<". Please try again.">>

\* a generateContent request of invocation a: its stage, the market it is
\* about and the research text its prompt embeds
AiRequest(a, stage, id, research) ==
    [inv |-> a, stage |-> stage, id |-> id, research |-> research]

IdleAnalysis ==
    [pc |-> "idle", id |-> "none", researchData |-> <<>>, result |-> "none",
     s1 |-> NoResponse, s2 |-> NoResponse, err |-> NoError, alert |-> <<>>, reqs |-> <<>>,
     written |-> NoVerdict]

\* ResearchThrown without the researchResult.error test
ResearchThrownIgnoresError(r) ==
    IF r.kind = "neterr" THEN FetchRejected
    ELSE IF r.kind = "badjson" THEN SyntaxErrorMsg
    ELSE IF r.result.t = "null" THEN AiTypeError
    ELSE IF r.result.t = "nocand" THEN AiTypeError
    ELSE NoError

\* the error thrown between the Stage-1 await and the Stage-2 request
ResearchThrown(r) ==
    IF r.kind = "neterr" THEN FetchRejected
    ELSE IF r.kind = "badjson" THEN SyntaxErrorMsg
    ELSE IF r.result.t = "null" THEN AiTypeError
    ELSE IF r.result.t = "error" THEN <<"Research failed: ", r.result.msg>>
    ELSE IF r.result.t = "nocand" THEN AiTypeError
    ELSE NoError

\* the error thrown between the Stage-2 await and setAnalyses
AnalysisThrown(r) ==
    IF r.kind = "neterr" THEN FetchRejected
    ELSE IF r.kind = "badjson" THEN SyntaxErrorMsg
    ELSE IF r.result.t = "null" THEN AiTypeError
    ELSE IF r.result.t = "error" THEN <<r.result.msg>>
    ELSE IF r.result.t = "nocand" THEN AiTypeError
    ELSE IF r.result.t = "notext" THEN AiTypeError
    ELSE IF ParseThrows(StripFences(r.result.text)) THEN SyntaxErrorMsg
    ELSE IF MetadataThrows(JsonParse(StripFences(r.result.text))) THEN MetadataTypeError
    ELSE NoError

\* EmbeddedResearch for a prompt that leaves the research text out
EmbeddedResearchEmpty(researchData) == <<>>

\* the text embedded in the Stage-2 prompt under VERIFIED RESEARCH DATA: the
\* template literal converts researchData to a string
EmbeddedResearch(researchData) ==
    IF researchData = <<>> THEN <<"undefined">> ELSE researchData

\* ClearFlag for a finally block that replaces the map instead of spreading
\* prev: the flags of the other identifiers are gone
ClearFlagDropsOthers(flags, id) ==
    [i \in DOMAIN flags |-> IF i = id THEN FlagFalse ELSE FlagUndefined]

\* ClearFlag for a finally block that leaves the flag as it is
ClearFlagForgets(flags, id) == flags

\* finally { setAnalyzing(prev => ({ ...prev, [market.id]: false })) }
ClearFlag(flags, id) == [flags EXCEPT ![id] = FlagFalse]

\* setAnalyzing(prev => ({ ...prev, [market.id]: true }))
SetFlag(flags, id) == [flags EXCEPT ![id] = FlagTrue]

\* StoreVerdict for a setAnalyses that does not spread prev: the verdicts of
\* the other identifiers are gone
StoreVerdictReplaces(map, id, value) ==
    [i \in DOMAIN map |-> IF i = id THEN value ELSE NoVerdict]

\* setAnalyses(prev => ({ ...prev, [market.id]: analysisData }))
StoreVerdict(map, id, value) == [map EXCEPT ![id] = value]

\* AnalysesAfter for a continuation that stores the verdict only while a card
\* of the markets list shows the market
AnalysesAfterIfListed(err, map, id, text) ==
    IF /\ err = NoError
       /\ \E i \in 1..Len(markets) :
             /\ markets[i].markets.shape = "list"
             /\ Len(markets[i].markets.items) >= 1
             /\ markets[i].markets.items[1].id = id
    THEN StoreVerdict(map, id, WithMetadata(JsonParse(StripFences(text))))
    ELSE map

\* AnalysesAfter for a setAnalyses placed ahead of the parse: a failing
\* invocation leaves an entry without a verdict under its identifier
AnalysesAfterWritesEarly(err, map, id, text) ==
    StoreVerdict(map, id,
        IF err = NoError THEN WithMetadata(JsonParse(StripFences(text)))
        ELSE WithMetadata(JsonValue("object", "", 0)))

\* the analyses map after the Stage-2 continuation: setAnalyses is the last
\* statement of the try block, reached only when nothing was thrown
AnalysesAfter(err, map, id, text) ==
    IF err = NoError
    THEN StoreVerdict(map, id, WithMetadata(JsonParse(StripFences(text))))
    ELSE map

\* A call of analyzeMarketWithGemini for market id: the guard, and past it
\* the synchronous prefix up to the Stage-1 await.  The caller is a click
\* handler of the last committed render, and the updates of a click are
\* committed before the next event is handled, so the guard reads the
\* current flag.
analyzeMarketWithGemini(a, id) ==
    /\ ana[a].pc \in {"idle", "done"}
    /\ IF Guarded(analyzing[id])
       THEN /\ ana' = [ana EXCEPT ![a] = [IdleAnalysis EXCEPT !.pc = "done", !.id = id,
                                                             !.result = "dropped"]]
            /\ UNCHANGED << analyzing, anet >>
       ELSE /\ analyzing' = SetFlag(analyzing, id)
            /\ anet' = anet \cup {AiRequest(a, 1, id, <<>>)}
            /\ ana' = [ana EXCEPT ![a] = [IdleAnalysis EXCEPT !.pc = "wait1", !.id = id,
                                              !.reqs = <<AiRequest(a, 1, id, <<>>)>>]]
    /\ UNCHANGED << fetchVars, analyses, clock, card, call >>

\* The Stage-1 request comes back with r: the invocation fails, or goes on to
\* the Stage-2 request.
researchResume(a, r) ==
    LET id == ana[a].id
        err == ResearchThrown(r)
        req == AiRequest(a, 2, id, EmbeddedResearch(r.result.text))
    IN
    /\ ana[a].pc = "wait1"
    /\ AiRequest(a, 1, id, <<>>) \in anet
    /\ IF err = NoError
       THEN /\ ana' = [ana EXCEPT ![a] = [@ EXCEPT !.pc = "wait2", !.s1 = r,
                                                  !.researchData = r.result.text,
                                                  !.reqs = Append(@, req)]]
            /\ anet' = (anet \ {AiRequest(a, 1, id, <<>>)}) \cup {req}
            /\ UNCHANGED analyzing
       ELSE /\ ana' = [ana EXCEPT ![a] = [@ EXCEPT !.pc = "done", !.result = "failed",
                                                  !.s1 = r,
                                                  !.err = err, !.alert = Alert(err)]]
            /\ anet' = anet \ {AiRequest(a, 1, id, <<>>)}
            /\ analyzing' = ClearFlag(analyzing, id)
    /\ UNCHANGED << fetchVars, analyses, clock, card, call >>

\* The Stage-2 request comes back with r: the verdict is stored or the
\* invocation fails; the in-flight flag is cleared.
analysisResume(a, r) ==
    LET id == ana[a].id
        err == AnalysisThrown(r)
        req == AiRequest(a, 2, id, EmbeddedResearch(ana[a].researchData))
    IN
    /\ ana[a].pc = "wait2"
    /\ req \in anet
    /\ anet' = anet \ {req}
    /\ analyses' = AnalysesAfter(err, analyses, id, r.result.text)
    /\ IF err = NoError
       THEN ana' = [ana EXCEPT ![a] = [@ EXCEPT !.pc = "done", !.result = "stored",
                                               !.s2 = r, !.written = analyses'[id]]]
       ELSE ana' = [ana EXCEPT ![a] = [@ EXCEPT !.pc = "done", !.result = "failed",
                                               !.s2 = r, !.err = err,
                                               !.alert = Alert(err)]]
    /\ analyzing' = ClearFlag(analyzing, id)
    /\ UNCHANGED << fetchVars, clock, card, call >>

(***************************************************************************)
(* JavaScript values of the fields of a raw market, and JSON text.         *)
(***************************************************************************)
\* a lexeme of a text: a bracket or a comma, a JSON literal (a quoted
\* string "str" with its content s, a number "num", null, an object "obj"),
\* or characters that are no JSON literal ("raw")
Tok(k, s) == [k |-> k, s |-> s]

\* the outcome labels and the price strings of the modelled API
Labels == {"Home", "Away"}
NumberTexts == {"0.52", "0.48"}

\* a number: NaN, an infinity, or the finite decimal whole + frac / 10000
\* with its sign
NaN == [kind |-> "nan", neg |-> FALSE, whole |-> 0, frac |-> 0]
Infinity == [kind |-> "inf", neg |-> FALSE, whole |-> 0, frac |-> 0]
Fin(neg, whole, frac) == [kind |-> "fin", neg |-> neg, whole |-> whole, frac |-> frac]

\* the number texts of the model and the numbers they denote; none of them
\* lies halfway between two decimals that toFixed chooses from (there the
\* choice depends on the binary value of the number)
NumberTable ==
    ("0" :> Fin(FALSE, 0, 0)) @@ ("1" :> Fin(FALSE, 1, 0)) @@ ("5" :> Fin(FALSE, 5, 0))
    @@ ("0.5" :> Fin(FALSE, 0, 5000)) @@ ("0.52" :> Fin(FALSE, 0, 5200))
    @@ ("0.48" :> Fin(FALSE, 0, 4800)) @@ ("0.1234" :> Fin(FALSE, 0, 1234))
    @@ ("0.1236" :> Fin(FALSE, 0, 1236)) @@ ("0.0004" :> Fin(FALSE, 0, 4))
    @@ ("0.0006" :> Fin(FALSE, 0, 6)) @@ ("0.9999" :> Fin(FALSE, 0, 9999))
    @@ ("1.5" :> Fin(FALSE, 1, 5000)) @@ ("-0.5" :> Fin(TRUE, 0, 5000))
    @@ ("-0.0001" :> Fin(TRUE, 0, 1)) @@ ("-5" :> Fin(TRUE, 5, 0))
    @@ ("0.4" :> Fin(FALSE, 0, 4000)) @@ ("0.6" :> Fin(FALSE, 0, 6000))
    @@ ("999" :> Fin(FALSE, 999, 0)) @@ ("999.6" :> Fin(FALSE, 999, 6000))
    @@ ("1000" :> Fin(FALSE, 1000, 0)) @@ ("1500" :> Fin(FALSE, 1500, 0))
    @@ ("12340" :> Fin(FALSE, 12340, 0)) @@ ("12360.7" :> Fin(FALSE, 12360, 7000))
    @@ ("999940" :> Fin(FALSE, 999940, 0)) @@ ("999960" :> Fin(FALSE, 999960, 0))
    @@ ("1000000" :> Fin(FALSE, 1000000, 0)) @@ ("1234000" :> Fin(FALSE, 1234000, 0))
    @@ ("1260000.5" :> Fin(FALSE, 1260000, 5000)) @@ ("25000000" :> Fin(FALSE, 25000000, 0))
    @@ ("Infinity" :> Infinity)

\* the texts that are JSON number literals

\* the characters s read as a text: a number literal or no literal at all
Lex(s) ==
    IF s \in DOMAIN NumberTable /\ NumberTable[s].kind = "fin"
    THEN Tok("num", s) ELSE Tok("raw", s)

\* a JavaScript value: undefined, null, an object, a number, a string (text
\* is its characters) or an array of scalar values
UndefinedValue == [t |-> "undefined", text |-> <<>>, items |-> <<>>]
NullValue == [t |-> "null", text |-> <<>>, items |-> <<>>]
ObjectValue == [t |-> "object", text |-> <<>>, items |-> <<>>]
NumberValue(s) == [t |-> "number", text |-> <<Tok("num", s)>>, items |-> <<>>]
StringValue(text) == [t |-> "string", text |-> text, items |-> <<>>]
ArrayValue(items) == [t |-> "array", text |-> <<>>, items |-> items]

\* the string with characters s
StringOf(s) == StringValue(<<Lex(s)>>)

\* texts joined by commas
RECURSIVE CommaJoin(_)
CommaJoin(texts) ==
    IF Len(texts) = 0 THEN <<>>
    ELSE IF Len(texts) = 1 THEN texts[1]
    ELSE texts[1] \o <<Tok(",", "")>> \o CommaJoin(Tail(texts))

\* JSON.stringify of a scalar and of an array of scalars, as the API encodes
\* the outcomes and outcomePrices fields
Literal(v) ==
    CASE v.t = "string" -> Tok("str", v.text[1].s)
      [] v.t = "number" -> v.text[1]
      [] v.t = "object" -> Tok("obj", "{}")
      [] OTHER -> Tok("null", "")
ArrayText(items) ==
    <<Tok("[", "")>> \o CommaJoin([i \in 1..Len(items) |-> <<Literal(items[i])>>])
                    \o <<Tok("]", "")>>

\* String(v), the conversion JSON.parse applies to an argument that is no
\* string: an array is its elements joined by commas, null and undefined
\* elements giving nothing
ScalarText(v) ==
    CASE v.t \in {"string", "number"} -> v.text
      [] v.t = "null" -> <<Tok("null", "")>>
      [] v.t = "undefined" -> <<Tok("raw", "undefined")>>
      [] OTHER -> <<Tok("raw", "[object Object]")>>
ToText(v) ==
    IF v.t = "array"
    THEN CommaJoin([i \in 1..Len(v.items) |->
                      IF v.items[i].t \in {"null", "undefined"} THEN <<>>
                      ELSE ScalarText(v.items[i])])
    ELSE ScalarText(v)

\* JSON.parse(text): one literal, or a bracketed list of literals separated
\* by commas; anything else throws a SyntaxError
IsLiteral(tok) == tok.k \in {"str", "num", "null", "obj"}
Inner(text) == SubSeq(text, 2, Len(text) - 1)
IsArrayText(text) ==
    /\ Len(text) >= 2
    /\ text[1].k = "["
    /\ text[Len(text)].k = "]"
    /\ \/ Len(text) = 2
       \/ /\ Len(Inner(text)) % 2 = 1
          /\ \A i \in 1..Len(Inner(text)) :
                IF i % 2 = 1 THEN IsLiteral(Inner(text)[i]) ELSE Inner(text)[i].k = ","
ParseJsonThrows(text) == ~((Len(text) = 1 /\ IsLiteral(text[1])) \/ IsArrayText(text))
ParseLiteral(tok) ==
    CASE tok.k = "str" -> StringOf(tok.s)
      [] tok.k = "num" -> NumberValue(tok.s)
      [] tok.k = "null" -> NullValue
      [] OTHER -> ObjectValue
ParseJson(text) ==
    IF Len(text) = 1 THEN ParseLiteral(text[1])
    ELSE ArrayValue([i \in 1..((Len(text) - 1) \div 2) |-> ParseLiteral(Inner(text)[2 * i - 1])])

\* typeof v === "string", Array.isArray(v)
IsString(v) == v.t = "string"
IsArrayValue(v) == v.t = "array"

\* event.markets[0]: a market object with its outcomes and outcomePrices
\* fields, or undefined
RawMarket(outcomes, outcomePrices) ==
    [defined |-> TRUE, outcomes |-> outcomes, outcomePrices |-> outcomePrices]
UndefinedMarket ==
    [defined |-> FALSE, outcomes |-> UndefinedValue, outcomePrices |-> UndefinedValue]

\* lists of up to MaxOutcomes labels, and of as many price strings and numbers
LabelLists == { [i \in 1..Len(l) |-> StringOf(l[i])] : l \in SeqsUpTo(Labels, MaxOutcomes) }
PriceStringLists ==
    { [i \in 1..Len(l) |-> StringOf(l[i])] : l \in SeqsUpTo(NumberTexts, MaxOutcomes) }
PriceNumberLists ==
    { [i \in 1..Len(l) |-> NumberValue(l[i])] : l \in SeqsUpTo(NumberTexts, MaxOutcomes) }

\* values of a field that are no list and encode none: absent, null, an
\* object, a number, and strings holding a number, null, an object, a quoted
\* string, a truncated array, nothing
OddValues ==
    { UndefinedValue, NullValue, ObjectValue, NumberValue("0.52"),
      StringValue(<<Tok("num", "0.52")>>), StringValue(<<Tok("null", "")>>),
      StringValue(<<Tok("obj", "{}")>>), StringValue(<<Tok("str", "Home")>>),
      StringValue(<<Tok("[", ""), Tok("str", "Home")>>), StringValue(<<>>) }

RawOutcomes ==
    OddValues \cup { StringValue(ArrayText(l)) : l \in LabelLists }
              \cup { ArrayValue(l) : l \in LabelLists }
              \cup { ArrayValue(<<NumberValue("0.52")>>) }
RawPrices ==
    OddValues \cup { StringValue(ArrayText(l)) : l \in PriceStringLists \cup PriceNumberLists }
              \cup { ArrayValue(l) : l \in PriceStringLists }
              \cup { StringValue(<<Tok("str", "5")>>) }

RawMarkets ==
    {UndefinedMarket} \cup { RawMarket(o, q) : o \in RawOutcomes, q \in RawPrices }

(***************************************************************************)
(* Numbers and the helper functions toPercent and formatMoney.             *)
(***************************************************************************)
\* parseFloat(v): the number at the start of String(v), NaN when there is
\* none
ParseFloat(v) ==
    LET text == ToText(v)
    IN IF Len(text) > 0 /\ text[1].k \in {"num", "raw"} /\ text[1].s \in DOMAIN NumberTable
       THEN NumberTable[text[1].s]
       ELSE NaN

\* !v is false
Truthy(v) ==
    CASE v.t \in {"undefined", "null"} -> FALSE
      [] v.t = "string" -> v.text # <<>>
      [] v.t = "number" -> LET x == ParseFloat(v)
                           IN ~(x.kind = "nan" \/ (x.kind = "fin" /\ x.whole = 0 /\ x.frac = 0))
      [] OTHER -> TRUE

\* x >= k for a positive integer k
AtLeast(x, k) ==
    CASE x.kind = "nan" -> FALSE
      [] x.kind = "inf" -> ~x.neg
      [] OTHER -> ~x.neg /\ x.whole >= k

\* a text made by the helpers: a prefix, a number in fixed notation (sign,
\* integer part, decimals) or the words NaN or Infinity, and a suffix
NumberText(form, neg, whole, dec) ==
    [prefix |-> "", form |-> form, neg |-> neg, whole |-> whole, dec |-> dec, suffix |-> ""]

\* ToFixed that cuts the decimals off instead of rounding
ToFixedTruncates(x, f) ==
    CASE x.kind = "nan" -> NumberText("NaN", FALSE, 0, <<>>)
      [] x.kind = "inf" -> NumberText("Infinity", x.neg, 0, <<>>)
      [] OTHER ->
           NumberText("fixed", x.neg /\ (x.whole > 0 \/ x.frac > 0), x.whole,
                      IF f = 1 THEN <<x.frac \div 1000>> ELSE <<>>)

\* x.toFixed(f) for f = 0 and f = 1: the nearest number with f decimals
ToFixed(x, f) ==
    CASE x.kind = "nan" -> NumberText("NaN", FALSE, 0, <<>>)
      [] x.kind = "inf" -> NumberText("Infinity", x.neg, 0, <<>>)
      [] OTHER ->
           LET n == IF f = 1 THEN x.whole * 10 + (x.frac + 500) \div 1000
                    ELSE x.whole + (x.frac + 5000) \div 10000
           IN NumberText("fixed", x.neg /\ (x.whole > 0 \/ x.frac > 0),
                         IF f = 1 THEN n \div 10 ELSE n,
                         IF f = 1 THEN <<n % 10>> ELSE <<>>)

\* "0.0"
ZeroPercent == NumberText("fixed", FALSE, 0, <<0>>)

\* const toPercent = (num) => { if (num === undefined || num === null)
\* return "0.0"; const parsed = parseFloat(num); if (isNaN(parsed)) return
\* "0.0"; return (parsed * 100).toFixed(1); }
toPercent(num) ==
    LET Times100(x) ==
            IF x.kind # "fin" THEN x
            ELSE Fin(x.neg, x.whole * 100 + (x.frac * 100) \div 10000,
                     (x.frac * 100) % 10000)
    IN
    IF num.t \in {"undefined", "null"} THEN ZeroPercent
    ELSE IF ParseFloat(num).kind = "nan" THEN ZeroPercent
    ELSE ToFixed(Times100(ParseFloat(num)), 1)

\* const formatMoney = (amount) => { if (!amount) return "$0"; const num =
\* parseFloat(amount); if (num >= 1000000) return "$" +
\* (num / 1000000).toFixed(1) + "M"; if (num >= 1000) return "$" +
\* (num / 1000).toFixed(1) + "K"; return "$" + num.toFixed(0); }
formatMoney(amount) ==
    LET Dollars(text, suffix) == [text EXCEPT !.prefix = "$", !.suffix = suffix]
        \* x / d for d = 1000 and d = 1000000, to four decimals
        DividedBy(x, d) ==
            IF x.kind # "fin" THEN x
            ELSE Fin(x.neg, x.whole \div d,
                     IF d >= 10000 THEN (x.whole % d) \div (d \div 10000)
                     ELSE (x.whole % d) * (10000 \div d) + x.frac \div d)
    IN
    IF ~Truthy(amount) THEN Dollars(NumberText("fixed", FALSE, 0, <<>>), "")
    ELSE IF AtLeast(ParseFloat(amount), 1000000)
         THEN Dollars(ToFixed(DividedBy(ParseFloat(amount), 1000000), 1), "M")
    ELSE IF AtLeast(ParseFloat(amount), 1000)
         THEN Dollars(ToFixed(DividedBy(ParseFloat(amount), 1000), 1), "K")
    ELSE Dollars(ToFixed(ParseFloat(amount), 0), "")

\* a call of a helper: its argument and what it returned
NoCall == [fn |-> "none", pc |-> "none", arg |-> UndefinedValue, out |-> ZeroPercent]

callToPercent ==
    /\ call.pc = "called"
    /\ call.fn = "toPercent"
    /\ call' = [call EXCEPT !.pc = "returned", !.out = toPercent(call.arg)]
    /\ UNCHANGED << fetchVars, analysisVars, clock, card >>

callFormatMoney ==
    /\ call.pc = "called"
    /\ call.fn = "formatMoney"
    /\ call' = [call EXCEPT !.pc = "returned", !.out = formatMoney(call.arg)]
    /\ UNCHANGED << fetchVars, analysisVars, clock, card >>

(***************************************************************************)
(* The render of a card: the parsing logic.                                *)
(***************************************************************************)
\* ["Yes", "No"] and []
YesNo == ArrayValue(<<StringOf("Yes"), StringOf("No")>>)
EmptyList == ArrayValue(<<>>)

\* what is thrown inside the try block of the outcomes: a TypeError when the
\* market is undefined, the SyntaxError of JSON.parse
OutcomesThrown(market) ==
    IF ~market.defined THEN "TypeError"
    ELSE IF ParseJsonThrows(ToText(market.outcomes)) THEN "SyntaxError"
    ELSE "none"

\* DecodeOutcomes without the Array.isArray test
DecodeOutcomesUntested(market) ==
    IF OutcomesThrown(market) # "none" THEN YesNo
    ELSE ParseJson(ToText(market.outcomes))

\* let outcomes = []; try { outcomes = JSON.parse(market.outcomes);
\* if (!Array.isArray(outcomes)) outcomes = ["Yes", "No"]; }
\* catch (e) { outcomes = ["Yes", "No"]; }
DecodeOutcomes(market) ==
    IF OutcomesThrown(market) # "none" THEN YesNo
    ELSE IF ~IsArrayValue(ParseJson(ToText(market.outcomes))) THEN YesNo
    ELSE ParseJson(ToText(market.outcomes))

\* what is thrown inside the try block of the prices
PricesThrown(market) ==
    IF ~market.defined THEN "TypeError"
    ELSE IF IsString(market.outcomePrices) /\ ParseJsonThrows(market.outcomePrices.text)
         THEN "SyntaxError"
    ELSE "none"

\* let prices = []; try { if (typeof market.outcomePrices === "string")
\* prices = JSON.parse(market.outcomePrices); else if
\* (Array.isArray(market.outcomePrices)) prices = market.outcomePrices; }
\* catch (e) { prices = []; }
DecodePrices(market) ==
    IF PricesThrown(market) # "none" THEN EmptyList
    ELSE IF IsString(market.outcomePrices) THEN ParseJson(market.outcomePrices.text)
    ELSE IF IsArrayValue(market.outcomePrices) THEN market.outcomePrices
    ELSE EmptyList

\* prices[idx] for idx = i - 1: the element of an array, the character of a
\* string, undefined for anything else that is not null
PriceAt(prices, i) ==
    LET Characters(s) == IF s = "Home" THEN <<"H", "o", "m", "e">> ELSE <<s>>
    IN
    CASE prices.t = "array" ->
           IF i <= Len(prices.items) THEN prices.items[i] ELSE UndefinedValue
      [] prices.t = "string" /\ prices.text # <<>> ->
           IF i <= Len(Characters(prices.text[1].s))
           THEN StringOf(Characters(prices.text[1].s)[i])
           ELSE UndefinedValue
      [] OTHER -> UndefinedValue

\* const price = prices && prices[idx] ? prices[idx] : 0;
\* const percent = toPercent(price);
ShownPercent(prices, i) ==
    toPercent(IF Truthy(prices) /\ Truthy(PriceAt(prices, i))
              THEN PriceAt(prices, i) ELSE NumberValue("0"))

\* const price = prices ? prices[idx] : 0; toPercent(price), in outcomeStr
PromptPercent(prices, i) ==
    toPercent(IF Truthy(prices) THEN PriceAt(prices, i) ELSE NumberValue("0"))

\* catch (e) of either block catches whatever was thrown
DecodeCaught(err) == err \in {"TypeError", "SyntaxError"}

\* an error of the parsing logic leaves the callback
DecodeRaises(market) ==
    \E err \in {OutcomesThrown(market), PricesThrown(market)} :
        err # "none" /\ ~DecodeCaught(err)

\* const analysis = analyses[market.id] throws when the market is undefined
LookupThrows(market) == ~market.defined

NoCard ==
    [pc |-> "none", market |-> UndefinedMarket, outcomes |-> EmptyList,
     prices |-> EmptyList, raised |-> "none", percents |-> <<>>, prompt |-> <<>>]
InputCard(m) == [NoCard EXCEPT !.pc = "input", !.market = m]

\* The callback of filteredMarkets.map for one event: the parsing logic, the
\* reads of the analysis state, and the percentages of the odds grid and of
\* the prompt that the analyze button of the card passes on.
renderCard ==
    /\ card.pc = "input"
    /\ card' = [card EXCEPT
                   !.pc = IF DecodeRaises(card.market) \/ LookupThrows(card.market)
                          THEN "thrown" ELSE "rendered",
                   !.outcomes = DecodeOutcomes(card.market),
                   !.prices = DecodePrices(card.market),
                   !.percents =
                       [i \in 1..Len(DecodeOutcomes(card.market).items) |->
                           ShownPercent(DecodePrices(card.market), i)],
                   !.prompt =
                       [i \in 1..Len(DecodeOutcomes(card.market).items) |->
                           PromptPercent(DecodePrices(card.market), i)],
                   !.raised = IF DecodeRaises(card.market) THEN "decode"
                              ELSE IF LookupThrows(card.market) THEN "lookup"
                              ELSE "none"]
    /\ UNCHANGED << fetchVars, analysisVars, clock, call >>

(***************************************************************************)
(* The analyze button of a card.                                           *)
(***************************************************************************)
\* the content area shows the cards: neither the spinner (loading with an
\* empty list) nor the error panel
CardsShown == ~(loading /\ Len(markets) = 0) /\ error = ErrNull

\* const market = event.markets[0]; reading market.outcomes and market.id of
\* an undefined market throws and takes the whole tree down
RenderThrows ==
    \E i \in 1..Len(markets) :
        ~(markets[i].markets.shape = "list" /\ Len(markets[i].markets.items) >= 1)

\* ButtonShown for a card that offers the button next to the verdict
ButtonShownAlways(analysis) == TRUE

\* {analysis ? (verdict) : (button)}: every stored verdict is an object, truthy
ButtonShown(analysis) == analysis = NoVerdict

\* disabled={isAnalyzing}
ButtonDisabled(isAnalyzing) == isAnalyzing = FlagTrue

\* A click on the analyze button of card i of the committed render.
clickAnalyze(a, i) ==
    /\ CardsShown
    /\ ~RenderThrows
    /\ i \in 1..Len(markets)
    /\ LET market == markets[i].markets.items[1]
       IN /\ ButtonShown(analyses[market.id])
          /\ ~ButtonDisabled(analyzing[market.id])
          /\ analyzeMarketWithGemini(a, market.id)

(***************************************************************************)
(* Specifications.                                                         *)
(***************************************************************************)
\* The state after the component has mounted: the useState initial values,
\* and the mount effect has called fetchMarkets, which waits for strategy 1.
Mounted ==
    /\ markets = <<>>
    /\ loading = TRUE
    /\ error = ErrNull
    /\ usingMockData = FALSE
    /\ analyses = [id \in AllMarketIds |-> NoVerdict]
    /\ analyzing = [id \in AllMarketIds |-> FlagUndefined]
    /\ clock = 0
    /\ fetch = [f \in Fetchers |-> IF f = 1 THEN StartedFetch ELSE IdleFetch]
    /\ net = {MarketRequest(1, 1)}
    /\ ana = [a \in Analyzers |-> IdleAnalysis]
    /\ anet = {}

\* no card is being rendered
Init == Mounted /\ card = NoCard /\ call = NoCall

\* the render of one card, for each raw market of RawMarkets
InitCard == Mounted /\ card \in { InputCard(m) : m \in RawMarkets } /\ call = NoCall

NextCard == renderCard

SpecCard == InitCard /\ [][NextCard]_vars

\* one call of toPercent or of formatMoney, for each argument
InitHelper ==
    /\ Mounted
    /\ card = NoCard
    /\ LET PercentTexts ==
               {"0", "1", "5", "0.5", "0.52", "0.48", "0.1234", "0.1236", "0.0004",
                "0.0006", "0.9999", "1.5", "-0.5", "-0.0001", "0.4", "0.6", "Infinity"}
           MoneyTexts ==
               {"0", "1", "0.4", "0.6", "-5", "999", "999.6", "1000", "1500", "12340",
                "12360.7", "999940", "999960", "1000000", "1234000", "1260000.5",
                "25000000", "Infinity"}
           \* every kind of value, and numbers and strings for the texts of a set
           HelperArgs(texts) ==
               { UndefinedValue, NullValue, ObjectValue, ArrayValue(<<>>),
                 ArrayValue(<<StringOf("0.52"), StringOf("0.48")>>),
                 NumberValue("NaN"), StringValue(<<>>), StringOf("abc"),
                 StringValue(<<Tok("num", "0.5"), Tok("raw", "abc")>>) }
               \cup { NumberValue(s) : s \in texts } \cup { StringOf(s) : s \in texts }
           HelperCall(fn, arg) == [NoCall EXCEPT !.fn = fn, !.pc = "called", !.arg = arg]
       IN call \in { HelperCall("toPercent", v) : v \in HelperArgs(PercentTexts) }
                   \cup { HelperCall("formatMoney", v) : v \in HelperArgs(MoneyTexts) }

NextHelper == callToPercent \/ callFormatMoney

SpecHelper == InitHelper /\ [][NextHelper]_vars

\* fetchMarkets called while no other invocation of it is in flight
fetchMarketsAlone(f) ==
    /\ \A g \in Fetchers : fetch[g].pc # "wait"
    /\ fetchMarkets(f)

\* one fetchMarkets invocation at a time, any response to each strategy
NextFetch ==
    \/ Tick
    \/ fetchMarketsAlone(1)
    \/ \E r \in Responses : fetchResume(1, r)

SpecFetch == Init /\ [][NextFetch]_vars

\* analyses of the markets, any response to each stage
NextAnalyze ==
    \/ \E a \in Analyzers, id \in MarketIds : analyzeMarketWithGemini(a, id)
    \/ \E a \in Analyzers, r \in Stage1Responses : researchResume(a, r)
    \/ \E a \in Analyzers, r \in Stage2Responses : analysisResume(a, r)

SpecAnalyze == Init /\ [][NextAnalyze]_vars

Next ==
    \/ Tick
    \/ \E f \in Fetchers : fetchMarkets(f)
    \/ \E f \in Fetchers, r \in Responses : fetchResume(f, r)
    \/ \E a \in Analyzers, id \in MarketIds : analyzeMarketWithGemini(a, id)
    \/ \E a \in Analyzers, r \in Stage1Responses : researchResume(a, r)
    \/ \E a \in Analyzers, r \in Stage2Responses : analysisResume(a, r)

Spec == Init /\ [][Next]_vars

\* responses that take every path of fetchMarkets: each failure kind, each
\* non-array body, the empty array, each event alone, and each event next to
\* an event the filter keeps, in either order
PathBodies ==
    {NullBody, ObjectBody, ArrayBody(<<>>)}
    \cup { ArrayBody(<<e>>) : e \in EventPool }
    \cup { ArrayBody(<<LiveEvent, e>>) : e \in EventPool }
    \cup { ArrayBody(<<e, LiveEvent>>) : e \in EventPool }
PathResponses ==
    { Response(k, NullBody) : k \in FailKinds } \cup { Response("json", b) : b \in PathBodies }

NextFetchPaths ==
    \/ Tick
    \/ fetchMarketsAlone(1)
    \/ \E r \in PathResponses : fetchResume(1, r)

\* one invocation at a time, and the network answers every request: the
\* outstanding strategy request of the invocation eventually comes back
FairSpecFetch ==
    /\ Init
    /\ [][NextFetchPaths]_vars
    /\ WF_vars(\E r \in PathResponses : fetchResume(1, r))

\* the network answers every generateContent request
FairSpecAnalyze ==
    /\ SpecAnalyze
    /\ \A a \in Analyzers :
          /\ WF_vars(\E r \in Stage1Responses : researchResume(a, r))
          /\ WF_vars(\E r \in Stage2Responses : analysisResume(a, r))

\* the user at the page: refreshes (the header button is always there, also
\* while a fetch is in flight) and clicks on analyze buttons, while the market API fails, returns an empty array or
\* one live event, and the generative-AI API fails or returns a verdict
UiResponses ==
    { Response("neterr", NullBody),
      Response("json", ArrayBody(<<>>)),
      Response("json", ArrayBody(<<LiveEvent>>)) }
UiStage1Responses ==
    { AiResponse("json", AiError("quota exceeded")),
      AiResponse("json", AiText(<<"form: WWDLW">>)) }
UiStage2Responses ==
    { AiResponse("json", AiError("quota exceeded")),
      AiResponse("json", AiText(<<"{ok1}">>)) }

NextUI ==
    \/ \E f \in Fetchers : fetchMarkets(f)
    \/ \E f \in Fetchers, r \in UiResponses : fetchResume(f, r)
    \/ \E a \in Analyzers, i \in 1..Len(MOCK_MARKETS) : clickAnalyze(a, i)
    \/ \E a \in Analyzers, r \in UiStage1Responses : researchResume(a, r)
    \/ \E a \in Analyzers, r \in UiStage2Responses : analysisResume(a, r)

SpecUI == Init /\ [][NextUI]_vars

\* refreshes while a fetch is in flight: two overlapping invocations of
\* fetchMarkets, each strategy failing, returning an empty array or one
\* live event
NextOverlap ==
    \/ \E f \in Fetchers : fetchMarkets(f)
    \/ \E f \in Fetchers, r \in UiResponses : fetchResume(f, r)

SpecOverlap == Init /\ [][NextOverlap]_vars

(***************************************************************************)
(* Properties of fetchMarkets.                                             *)
(***************************************************************************)
\* the requests of invocation f in flight
Outstanding(f) == { q \in net : q.inv = f }

\* an element of a payload passes the eligibility filter
Eligible(event, now) == ~CallbackThrows(event) /\ Keep(event, now)

\* the elements of a payload that pass the eligibility filter, in payload order
EligibleEvents(items, now) == SelectSeq(items, LAMBDA e : Eligible(e, now))

\* invocation f has completed after a strategy returned an array payload
GotArray(f) ==
    fetch[f].pc = "done" /\ fetch[f].fetchSuccess /\ IsArray(fetch[f].data)

\* C1: when the direct request and both relay requests of an invocation have
\* failed (network error or non-success status on each), the completed
\* invocation leaves the markets list equal to the two-event sample set and
\* the FALLBACK tag set.
C1_AllFailFallsBack ==
    \A f \in Fetchers :
        ( /\ fetch[f].pc = "done"
          /\ Len(fetch[f].log) = 3
          /\ \A i \in 1..3 : fetch[f].log[i] \in {"neterr", "notok"} )
        => /\ markets = MOCK_MARKETS
           /\ Len(markets) = 2
           /\ usingMockData = TRUE

C1_Witness ==
    /\ fetch[1].pc = "done"
    /\ fetch[1].log = <<"neterr", "notok", "neterr">>
    /\ markets = MOCK_MARKETS
    /\ usingMockData = TRUE

\* C2: the strategies of one invocation are requested in the order 1, 2, 3:
\* at most one request of the invocation is in flight, it is the request of
\* the strategy after those already answered, every strategy answered before
\* it failed, at most three requests are issued, and a strategy that succeeded
\* is the last one requested.
C2_StrictlySequential ==
    \A f \in Fetchers :
        LET log == fetch[f].log
        IN /\ Cardinality(Outstanding(f)) <= 1
           /\ Len(log) + Cardinality(Outstanding(f)) <= 3
           /\ \A q \in Outstanding(f) :
                 /\ q.strat = Len(log) + 1
                 /\ \A i \in 1..Len(log) : log[i] \in FailKinds
           /\ \A i \in 1..Len(log) :
                 log[i] \notin FailKinds => (i = Len(log) /\ Outstanding(f) = {})

C2_Witness ==
    /\ fetch[1].pc = "done"
    /\ fetch[1].log = <<"neterr", "json">>
    /\ Outstanding(1) = {}

\* C3 (as claimed): an invocation that got a success status with a non-array
\* body from a strategy goes on to the next strategy, so it completes only
\* after all three strategies were requested.
C3_NonArrayAdvancesChain ==
    \A f \in Fetchers :
        ( /\ fetch[f].pc = "done"
          /\ fetch[f].fetchSuccess
          /\ ~IsArray(fetch[f].data) )
        => Len(fetch[f].log) = 3

\* C4 (as claimed): when a strategy returned an array payload with at least
\* one eligible event, the completed invocation leaves the markets list equal
\* to the eligible events of the payload in payload order, the FALLBACK tag
\* cleared and the error null.
C4_LiveKeepsEligible ==
    \A f \in Fetchers :
        ( /\ GotArray(f)
          /\ EligibleEvents(fetch[f].data.items, NowDate(fetch[f].now)) # <<>> )
        => /\ markets = EligibleEvents(fetch[f].data.items, NowDate(fetch[f].now))
           /\ usingMockData = FALSE
           /\ error = ErrNull

\* C5 (as claimed): a completed invocation leaves a non-null error exactly
\* when a strategy returned an array payload none of whose events is
\* eligible; then, and when no array payload was obtained, the markets list
\* is the sample set with the FALLBACK tag, and in the latter case the error
\* is null.
C5_AdvisoryIffEmpty ==
    \A f \in Fetchers :
        fetch[f].pc = "done" =>
            LET soft == /\ GotArray(f)
                        /\ EligibleEvents(fetch[f].data.items, NowDate(fetch[f].now)) = <<>>
                hard == ~GotArray(f)
            IN /\ (error # ErrNull) <=> soft
               /\ hard => (error = ErrNull /\ usingMockData = TRUE)
               /\ (hard \/ soft) => markets = MOCK_MARKETS

\* C6: every invocation whose requests are answered completes, and a
\* completed invocation has raised nothing to its caller and leaves loading
\* false and a non-empty markets list.
C6_AlwaysCompletes ==
    /\ \A f \in Fetchers : (fetch[f].pc = "wait") ~> (fetch[f].pc = "done")
    /\ [](\A f \in Fetchers :
            fetch[f].pc = "done" =>
                /\ ~fetch[f].raised
                /\ loading = FALSE
                /\ Len(markets) > 0)

C6_Witness ==
    /\ fetch[1].pc = "done"
    /\ fetch[1].err = TypeErrorMsg
    /\ ~fetch[1].raised
    /\ loading = FALSE
    /\ markets = MOCK_MARKETS

(***************************************************************************)
(* Properties of analyzeMarketWithGemini.                                  *)
(***************************************************************************)
\* invocation a is past the guard and has not ended
InFlight(a) == ana[a].pc \in {"wait1", "wait2"}

\* the generateContent requests of invocation a in flight
AiOutstanding(a) == { q \in anet : q.inv = a }

\* the stages of the requests invocation a has issued
StagesOf(a) == [i \in 1..Len(ana[a].reqs) |-> ana[a].reqs[i].stage]

\* C7: a call for a market identifier whose analysis is unresolved is dropped
\* without issuing a request; no two analyses of one identifier are in
\* flight, no two requests for one identifier are in flight, and a verdict of
\* an identifier is only ever written by the one invocation in flight for it.
C7_InFlightGuard ==
    /\ [](/\ \A a, b \in Analyzers :
               (a # b /\ InFlight(a) /\ InFlight(b)) => ana[a].id # ana[b].id
          /\ \A id \in MarketIds : Cardinality({ q \in anet : q.id = id }) <= 1
          /\ \A a \in Analyzers :
               ana[a].result = "dropped" => (ana[a].reqs = <<>> /\ AiOutstanding(a) = {}))
    /\ [][ /\ \A a \in Analyzers, id \in MarketIds :
                ( /\ \E b \in Analyzers : InFlight(b) /\ ana[b].id = id
                  /\ ~InFlight(a)
                  /\ ana'[a] # ana[a]
                  /\ ana'[a].id = id )
                => /\ ana'[a].result = "dropped"
                   /\ anet' = anet
                   /\ analyses' = analyses
                   /\ analyzing' = analyzing
           /\ \A id \in MarketIds :
                analyses'[id] # analyses[id] =>
                    \E a \in Analyzers :
                        /\ ana[a].id = id
                        /\ ana[a].pc = "wait2"
                        /\ ana'[a].written = analyses'[id]
                        /\ \A b \in Analyzers \ {a} : ~(InFlight(b) /\ ana[b].id = id) ]_vars

C7_Witness ==
    /\ ana[1].pc = "wait2"
    /\ ana[1].id = "A"
    /\ ana[2].result = "dropped"
    /\ ana[2].id = "A"
    /\ analyzing["A"] = FlagTrue
    /\ Cardinality(anet) = 1

\* C8: an invocation whose Stage-1 response carries an error object has
\* failed with the error "Research failed: " followed by the upstream
\* message, and has issued no Stage-2 request.
C8_ResearchErrorStops ==
    \A a \in Analyzers :
        (ana[a].s1.kind = "json" /\ ana[a].s1.result.t = "error")
        => /\ ana[a].pc = "done"
           /\ ana[a].result = "failed"
           /\ ana[a].err = <<"Research failed: ", ana[a].s1.result.msg>>
           /\ ana[a].alert = Alert(<<"Research failed: ", ana[a].s1.result.msg>>)
           /\ StagesOf(a) = <<1>>
           /\ AiOutstanding(a) = {}

C8_Witness ==
    /\ ana[1].s1 = AiResponse("json", AiError("quota exceeded"))
    /\ ana[1].result = "failed"
    /\ ana[1].err = <<"Research failed: ", "quota exceeded">>

C10_FlagCleared ==
    /\ \A a \in Analyzers :
          InFlight(a) ~> (ana[a].pc = "done" /\ analyzing[ana[a].id] = FlagFalse)
    /\ [][ \A a \in Analyzers :
              (InFlight(a) /\ ana'[a].pc = "done")
              => /\ ana'[a].result \in {"stored", "failed"}
                 /\ analyzing'[ana[a].id] = FlagFalse ]_vars

C10_Witness ==
    /\ ana[1].pc = "done"
    /\ ana[1].result = "failed"
    /\ ana[1].err = SyntaxErrorMsg
    /\ ana[1].s2.result.t = "text"
    /\ analyzing[ana[1].id] = FlagFalse
    /\ ana[2].pc = "done"
    /\ ana[2].result = "stored"
    /\ analyzing[ana[2].id] = FlagFalse

(***************************************************************************)
(* Properties of a failed analysis and of the stored verdicts.             *)
(***************************************************************************)
\* a Stage-1 response that cannot give a research text: the request failed,
\* the result carries an error object, or it carries no candidate
ResearchAnsweredBadly(r) ==
    \/ r.kind \in AiFailKinds
    \/ r.kind = "json" /\ r.result.t \in {"null", "error", "nocand"}

\* a Stage-2 response that cannot give a verdict: the request failed, the
\* result carries an error object or no text, or the text is not JSON
VerdictAnsweredBadly(r) ==
    \/ r.kind \in AiFailKinds
    \/ r.kind = "json" /\ r.result.t \in {"null", "error", "nocand", "notext"}
    \/ r.kind = "json" /\ r.result.t = "text" /\ ParseThrows(StripFences(r.result.text))

\* C11: the step that ends an invocation in failure (a bad Stage-1 answer, a
\* bad Stage-2 answer, or anything else thrown) leaves the analyses map as it
\* was, and the invocation has written no entry.
C11_FailureWritesNothing ==
    [][ \A a \in Analyzers :
          ( /\ InFlight(a)
            /\ ana'[a].pc = "done"
            /\ \/ ana'[a].result = "failed"
               \/ ResearchAnsweredBadly(ana'[a].s1)
               \/ VerdictAnsweredBadly(ana'[a].s2) )
          => /\ analyses' = analyses
             /\ ana'[a].written = NoVerdict
             /\ ana'[a].result = "failed" ]_vars

C11_Witness ==
    /\ ana[1].result = "failed"
    /\ ana[1].id = "A"
    /\ ana[1].s2 = AiResponse("json", AiText(<<"Sure! ", "{ok1}">>))
    /\ analyses["A"] = NoVerdict
    /\ ana[2].result = "stored"
    /\ ana[2].id = "B"
    /\ analyses["B"] = WithMetadata(DocValue("{ok1}"))

\* the verdict structure the prompt asks for: a status out of three and a
\* confidence rating from 1 to 10
WellFormedVerdict(v) ==
    /\ v.t = "object"
    /\ v.status \in {"UNDERVALUED", "OVERVALUED", "FAIR"}
    /\ v.confidence \in 1..10

\* C12: every verdict in the analyses map has the verdict structure, and an
\* invocation whose Stage-2 text parses to something else has failed.
C12_VerdictsWellFormed ==
    /\ \A id \in MarketIds :
          analyses[id] # NoVerdict => WellFormedVerdict(analyses[id])
    /\ \A a \in Analyzers :
          ( /\ ana[a].s2.kind = "json"
            /\ ana[a].s2.result.t = "text"
            /\ ~ParseThrows(StripFences(ana[a].s2.result.text))
            /\ ~WellFormedVerdict(JsonParse(StripFences(ana[a].s2.result.text))) )
          => ana[a].result = "failed"

\* C13: an invocation whose Stage-1 response has no error object and no
\* candidate text has failed with a Research failed error and has issued no
\* Stage-2 request.
C13_MissingResearchFails ==
    \A a \in Analyzers :
        (ana[a].s1.kind = "json" /\ ana[a].s1.result.t \in {"nocand", "notext"})
        => /\ ana[a].result = "failed"
           /\ Len(ana[a].err) > 0
           /\ ana[a].err[1] = "Research failed: "
           /\ StagesOf(a) = <<1>>

(***************************************************************************)
(* Properties of the eligibility filter.                                   *)
(***************************************************************************)
\* invocation f has completed with setMarkets(validEvents)
LiveDone(f) == fetch[f].pc = "done" /\ fetch[f].err = NoErr

\* the event ends before time t
EndsBefore(event, t) == event.endDate.shape = "iso" /\ event.endDate.ms < t

\* the event ends after time t
EndsAfter(event, t) == event.endDate.shape = "iso" /\ event.endDate.ms > t

\* the markets of the event are absent or an empty list
WithoutMarkets(event) ==
    \/ event.markets.shape = "absent"
    \/ event.markets.shape = "list" /\ event.markets.items = <<>>

\* C16: after an invocation has completed with a live payload, the markets
\* list holds no event that ends before the evaluation time of the
\* invocation, and no event whose markets are absent or empty; every payload
\* event that ends before that time or is without markets was left out.
C16_PastAndEmptyExcluded ==
    \A f \in Fetchers :
        LiveDone(f) =>
            /\ \A i \in 1..Len(markets) :
                  /\ ~EndsBefore(markets[i], fetch[f].now)
                  /\ ~WithoutMarkets(markets[i])
            /\ \A j \in 1..Len(fetch[f].data.items) :
                  (EndsBefore(fetch[f].data.items[j], fetch[f].now)
                     \/ WithoutMarkets(fetch[f].data.items[j]))
                  => \A i \in 1..Len(markets) : markets[i] # fetch[f].data.items[j]

C16_Witness ==
    /\ LiveDone(1)
    /\ fetch[1].now = 2
    /\ fetch[1].data.items = <<Event("e2", MarketList(<<Market("B", 3)>>), IsoDate(1)), LiveEvent>>
    /\ markets = <<LiveEvent>>

\* C17: after an invocation has completed with a live payload, every event
\* of the markets list has a valid end date later than the evaluation time.
C17_StrictlyFuture ==
    \A f \in Fetchers :
        LiveDone(f) =>
            \A i \in 1..Len(markets) : EndsAfter(markets[i], fetch[f].now)

\* C18: every event of the markets list has a list of markets with at least
\* one element.
C18_PrimaryMarketDefined ==
    \A i \in 1..Len(markets) :
        /\ markets[i].markets.shape = "list"
        /\ Len(markets[i].markets.items) >= 1

(***************************************************************************)
(* Properties of the analyses through the page.                            *)
(***************************************************************************)
\* C14: the step that ends an invocation in failure leaves the markets list,
\* loading, the advisory error and the FALLBACK tag as they were, and leaves
\* the verdict and the in-flight flag of every other identifier as they were.
C14_FailureFrame ==
    [][ \A a \in Analyzers :
          (InFlight(a) /\ ana'[a].pc = "done" /\ ana'[a].result = "failed")
          => /\ markets' = markets
             /\ loading' = loading
             /\ error' = error
             /\ usingMockData' = usingMockData
             /\ fetch' = fetch
             /\ net' = net
             /\ \A id \in AllMarketIds \ {ana[a].id} :
                   /\ analyses'[id] = analyses[id]
                   /\ analyzing'[id] = analyzing[id] ]_vars

\* an analysis of A has failed while a fetch was under way over a live list,
\* a verdict was cached for m1 and the other invocation was in flight
C14_Witness ==
    /\ ana[1].result = "failed"
    /\ ana[1].id = "A"
    /\ ana[2].pc = "wait2"
    /\ ana[2].id = "m2"
    /\ analyzing["m2"] = FlagTrue
    /\ analyses["m1"] # NoVerdict
    /\ markets = <<LiveEvent>>
    /\ loading
    /\ fetch[2].pc = "wait"

\* C15: a verdict in the analyses map stays as it is in every step, no step
\* issues a request for its identifier, and no request for it is in flight.
C15_VerdictIsFinal ==
    /\ [][ \A id \in AllMarketIds :
              analyses[id] # NoVerdict
              => /\ analyses'[id] = analyses[id]
                 /\ \A q \in anet' \ anet : q.id # id ]_vars
    /\ [](\A id \in AllMarketIds :
              analyses[id] # NoVerdict => \A q \in anet : q.id # id)

\* the verdict of A is cached, a later fetch has fallen back to the sample
\* events, and a later analysis of another market has failed
C15_Witness ==
    /\ analyses["A"] = WithMetadata(DocValue("{ok1}"))
    /\ markets = MOCK_MARKETS
    /\ usingMockData
    /\ ana[1].result = "failed"
    /\ ana[1].id = "m1"
    /\ ana[2].result = "stored"
    /\ ana[2].id = "m2"

(***************************************************************************)
(* Properties of the parsing logic of a card.                              *)
(***************************************************************************)
\* the card has been through the parsing logic
Decoded == card.pc \in {"rendered", "thrown"}

\* JSON.parse of the field gives a list
DecodesToList(v) == ~ParseJsonThrows(ToText(v)) /\ ParseJson(ToText(v)).t = "array"

\* C19 (as claimed): the decoded prices of a card are a list: the field when
\* it is a native list, the decoded list when it is a string that encodes a
\* list, and the empty list otherwise.
C19_PricesAlwaysList ==
    Decoded =>
        /\ IsArrayValue(card.prices)
        /\ card.prices =
              (IF card.market.defined /\ IsArrayValue(card.market.outcomePrices)
               THEN card.market.outcomePrices
               ELSE IF /\ card.market.defined
                       /\ IsString(card.market.outcomePrices)
                       /\ DecodesToList(card.market.outcomePrices)
               THEN ParseJson(card.market.outcomePrices.text)
               ELSE EmptyList)

\* C20: the decoded outcomes of a card are the decoded list when the field
\* decodes to a list (an encoded list of labels gives back these labels) and
\* Yes, No otherwise (also for an undefined market and for every value that
\* is no list and encodes none); no error of the parsing logic leaves the
\* callback.
C20_OutcomesListOrYesNo ==
    Decoded =>
        /\ card.raised # "decode"
        /\ IsArrayValue(card.outcomes)
        /\ card.outcomes =
              (IF card.market.defined /\ DecodesToList(card.market.outcomes)
               THEN ParseJson(ToText(card.market.outcomes))
               ELSE YesNo)
        /\ \A l \in LabelLists :
              (card.market.defined /\ card.market.outcomes = StringValue(ArrayText(l)))
              => card.outcomes = ArrayValue(l)
        /\ (~card.market.defined \/ card.market.outcomes \in OddValues)
              => card.outcomes = YesNo

\* the outcomes field holds the text 0.52, which decodes to a number
C20_Witness ==
    /\ card.pc = "rendered"
    /\ card.market.outcomes = StringValue(<<Tok("num", "0.52")>>)
    /\ card.market.outcomePrices =
          StringValue(ArrayText(<<StringOf("0.52"), StringOf("0.48")>>))
    /\ card.outcomes = YesNo
    /\ card.prices = ArrayValue(<<StringOf("0.52"), StringOf("0.48")>>)

(***************************************************************************)
(* Properties of the displayed list and of overlapping fetches.            *)
(***************************************************************************)
\* the number of outcomes of the primary market of an event
PrimaryOutcomes(event) == event.markets.items[1].outcomes

\* C24 (as claimed): every event of the markets list whose primary market is
\* defined has exactly two outcomes.
C24_OnlyBinary ==
    \A i \in 1..Len(markets) :
        (markets[i].markets.shape = "list" /\ Len(markets[i].markets.items) >= 1)
        => PrimaryOutcomes(markets[i]) = 2

\* no invocation of fetchMarkets is in flight and one has completed
AllFetchesDone ==
    /\ \A f \in Fetchers : fetch[f].pc # "wait"
    /\ \E f \in Fetchers : fetch[f].pc = "done"

\* C25 (as claimed): once the overlapping invocations have completed, the
\* FALLBACK tag is set exactly when the markets list is the sample set, and
\* the error is null when the list holds live events.
C25_TagMatchesList ==
    AllFetchesDone =>
        /\ usingMockData <=> (markets = MOCK_MARKETS)
        /\ markets # MOCK_MARKETS => error = ErrNull

\* C26 (as claimed): a non-empty markets list with the FALLBACK tag cleared
\* is not the sample set.
C26_LiveBannerMeansLive ==
    (Len(markets) > 0 /\ ~usingMockData) => markets # MOCK_MARKETS

\* C27 (as claimed): loading is true while an invocation of fetchMarkets is
\* in flight.
C27_LoadingWhileInFlight ==
    (\E f \in Fetchers : fetch[f].pc = "wait") => loading

(***************************************************************************)
(* Properties of concurrent analyses and of analyses next to fetches.      *)
(***************************************************************************)
\* C28: a step of an invocation leaves the verdict and the in-flight flag of
\* every other market identifier as they were; the step that ends an
\* invocation in success puts its verdict in the map; and when two
\* invocations for different identifiers have both succeeded, both
\* identifiers have a verdict.
C28_NoLostUpdate ==
    /\ [][ \A a \in Analyzers :
              ana'[a] # ana[a]
              => /\ \A id \in AllMarketIds \ {ana'[a].id} :
                       /\ analyses'[id] = analyses[id]
                       /\ analyzing'[id] = analyzing[id]
                 /\ ana'[a].result = "stored"
                       => /\ ana'[a].written # NoVerdict
                          /\ analyses'[ana'[a].id] = ana'[a].written ]_vars
    /\ [](\A a, b \in Analyzers :
              ( /\ ana[a].result = "stored"
                /\ ana[b].result = "stored"
                /\ ana[a].id # ana[b].id )
              => /\ analyses[ana[a].id] # NoVerdict
                 /\ analyses[ana[b].id] # NoVerdict)

C28_Witness ==
    /\ ana[1].result = "stored"
    /\ ana[1].id = "A"
    /\ ana[2].result = "stored"
    /\ ana[2].id = "B"
    /\ analyses["A"] = WithMetadata(DocValue("{ok1}"))
    /\ analyses["B"] = WithMetadata(DocValue("{ok2}"))
    /\ analyzing["A"] = FlagFalse
    /\ analyzing["B"] = FlagFalse

\* C29: a step of fetchMarkets leaves the analyses map, the in-flight map,
\* the invocations of the analyzer and their requests as they were; an
\* invocation in flight keeps its request outstanding; and the step that
\* ends an invocation in success writes its verdict, whatever the markets
\* list holds by then.
C29_FetchLeavesAnalyses ==
    /\ [][ fetch' # fetch
              => /\ analyses' = analyses
                 /\ analyzing' = analyzing
                 /\ ana' = ana
                 /\ anet' = anet ]_vars
    /\ [](\A a \in Analyzers : InFlight(a) => AiOutstanding(a) # {})
    /\ [][ \A a \in Analyzers :
              (ana[a].pc = "wait2" /\ ana'[a].result = "stored")
              => /\ ana'[a].written # NoVerdict
                 /\ analyses'[ana[a].id] = ana'[a].written ]_vars

\* the analysis of A is in flight, its flag set, and a fetch has meanwhile
\* replaced the list by the sample events
C29_Witness ==
    /\ ana[1].pc = "wait2"
    /\ ana[1].id = "A"
    /\ analyzing["A"] = FlagTrue
    /\ markets = MOCK_MARKETS
    /\ usingMockData
    /\ analyses["m1"] # NoVerdict
    /\ fetch[1].pc = "done"

\* an analysis of id has failed and the in-flight flag of id is false
FailedAndCleared(id) ==
    /\ \E b \in Analyzers : ana[b].result = "failed" /\ ana[b].id = id
    /\ analyzing[id] = FlagFalse

\* C30: a call of the analyzer for an identifier whose analysis has failed
\* and whose in-flight flag is false is not dropped: it sets the flag and
\* issues a new Stage-1 request.
C30_RetryAfterFailure ==
    [][ \A a \in Analyzers, id \in MarketIds :
          ( /\ ana[a].pc \in {"idle", "done"}
            /\ ana'[a] # ana[a]
            /\ ana'[a].id = id
            /\ FailedAndCleared(id) )
          => /\ ana'[a].pc = "wait1"
             /\ ana'[a].result = "none"
             /\ analyzing'[id] = FlagTrue
             /\ AiRequest(a, 1, id, <<>>) \in anet' \ anet ]_vars

C30_Witness ==
    /\ ana[1].result = "failed"
    /\ ana[1].id = "A"
    /\ ana[2].pc = "wait1"
    /\ ana[2].id = "A"
    /\ analyzing["A"] = FlagTrue
    /\ AiRequest(2, 1, "A", <<>>) \in anet

(***************************************************************************)
(* Properties of toPercent and formatMoney.                                *)
(***************************************************************************)
\* toPercent has returned
PercentReturned == call.fn = "toPercent" /\ call.pc = "returned"

\* the argument of the call is undefined or null, or parseFloat finds no
\* number in it
Unparseable(v) == v.t \in {"undefined", "null"} \/ ParseFloat(v).kind = "nan"

\* text is the one-decimal notation nearest to x times 100
NearestPercent(text, x) ==
    /\ text.form = "fixed"
    /\ text.prefix = ""
    /\ text.suffix = ""
    /\ Len(text.dec) = 1
    /\ text.dec[1] \in 0..9
    /\ (text.whole * 10 + text.dec[1]) * 10 - (x.whole * 10000 + x.frac) \in -4..4

MoneyReturned == call.fn = "formatMoney" /\ call.pc = "returned"

\* text is "$" followed by a number with as many decimals and by the suffix
MoneyForm(text, decimals, suffix) ==
    /\ text.prefix = "$"
    /\ text.form = "fixed"
    /\ Len(text.dec) = decimals
    /\ text.suffix = suffix

\* C23 (as claimed): formatMoney returns $0 for a falsy amount, millions with
\* one decimal and M from 1000000 on, thousands with one decimal and K from
\* 1000 on, and a whole number of dollars for every other amount.
C23_FourForms ==
    MoneyReturned =>
        IF ~Truthy(call.arg)
        THEN call.out = [NumberText("fixed", FALSE, 0, <<>>) EXCEPT !.prefix = "$"]
        ELSE IF AtLeast(ParseFloat(call.arg), 1000000) THEN MoneyForm(call.out, 1, "M")
        ELSE IF AtLeast(ParseFloat(call.arg), 1000) THEN MoneyForm(call.out, 1, "K")
        ELSE MoneyForm(call.out, 0, "")

(***************************************************************************)
(* Properties of the percentages of a card.                                *)
(***************************************************************************)
\* the price list of a raw market: the field when it is a list, the decoded
\* list when it is a string that encodes one, the empty list otherwise
PriceList(market) ==
    IF market.defined /\ IsArrayValue(market.outcomePrices) THEN market.outcomePrices.items
    ELSE IF /\ market.defined
            /\ IsString(market.outcomePrices)
            /\ DecodesToList(market.outcomePrices)
    THEN ParseJson(market.outcomePrices.text).items
    ELSE <<>>

\* C21 (as claimed): a card has one percentage for each label, in label
\* order, in the odds grid and in the prompt: toPercent of the price at the
\* index of the label, and 0.0 beyond the end of the price list.
C21_PercentByIndex ==
    Decoded =>
        /\ Len(card.percents) = Len(card.outcomes.items)
        /\ Len(card.prompt) = Len(card.outcomes.items)
        /\ \A i \in 1..Len(card.outcomes.items) :
              /\ card.percents[i] =
                    (IF i <= Len(PriceList(card.market))
                     THEN toPercent(PriceList(card.market)[i]) ELSE ZeroPercent)
              /\ card.prompt[i] = card.percents[i]

====
